---- MODULE Spec2Model ----
(***************************************************************************)
(* A model of check_eq.py: the equivalence check test_equivalence (the     *)
(* Bell-pair overlap of two circuits, contracted to one scalar and         *)
(* compared with 1), the batch driver run() and the script body that       *)
(* writes results.csv in a finally block.                                  *)
(*                                                                         *)
(* Two specifications share the module.  SpecEq steps through one call of  *)
(* test_equivalence line by line, with the circuits as objects of a heap   *)
(* so that copy and alias differ.  Spec steps through the script body and  *)
(* run(), calling test_equivalence as the operator TestEquivalence.        *)
(***************************************************************************)
EXTENDS Integers, Sequences, FiniteSets, TLC

VARIABLES
    \* ---- one call of test_equivalence (SpecEq) ----
    tpc,            \* position in test_equivalence
    heap,           \* object id -> Circuit value (or NoCircuit)
    circ1, circ2,   \* the two arguments: object ids
    args,           \* the values of the two arguments at the call
    variant,        \* how the second input was derived from the first
    n_qubits,       \* local n_qubits
    bell_states, ket_circ, bra_circ,   \* locals: object ids (or NoRef)
    overlap,        \* the contracted scalar
    ret,            \* the returned verdict
    \* ---- the script body and run() (Spec) ----
    pc,             \* position in __main__ / run
    exc,            \* the exception propagating out of run, or NoExc
    max_qubits,     \* run's parameter
    results,        \* the list shared by __main__ and run
    n_skipped, n_success, n_fail,
    listing,        \* the names os.listdir still has to yield
    bef_index,      \* how many names os.listdir has yielded
    name,           \* stem of the current before file
    old_circ,       \* the current before circuit
    new_files,      \* candidates still to visit (json ones, then qasm ones)
    new_index,      \* how many candidates of this before file were visited
    new_circ,       \* the candidate just loaded
    console,        \* what was printed: one entry per status or summary line
    report,         \* the rows of results.csv, or NoFile
    n_writes,       \* how many times results.csv was opened for writing
    pairs,          \* history: the pairs whose candidate was loaded
    calls,          \* history: the pairs passed to test_equivalence
    row_owner       \* history: the pair that appended each row of results

eqvars  == <<tpc, heap, circ1, circ2, args, variant, n_qubits, bell_states,
             ket_circ, bra_circ, overlap, ret>>
runvars == <<pc, exc, max_qubits, results, n_skipped, n_success, n_fail,
             listing, bef_index, name, old_circ, new_files, new_index,
             new_circ, console, report, n_writes, pairs, calls, row_owner>>
vars    == <<eqvars, runvars>>

----------------------------------------------------------------------------
(* Bounds of the model.                                                    *)

\* qubit counts of the circuits given to one call of test_equivalence
MaxQubits == 2
\* gates of the first input circuit of one call
MaxGates == 1
\* gates of an unrelated second input circuit of one call
MaxOther == 0
\* the largest ceiling max_qubits given to run(); the circuit files hold
\* circuits of up to one qubit more
MaxCeiling == 1
\* before files in the directory "bef"
MaxBefore == 3
\* candidate files one glob returns
MaxGlob == 1
\* distinct values of a measured elapsed time
MaxElapsed == 1

----------------------------------------------------------------------------
(* pytket circuits: a qubit count and a gate sequence.  Qubits are numbered *)
(* from 0 as in the source.                                                *)

NoCircuit == [n_qubits |-> -1, gates |-> <<>>]
NoRef     == "none"

Gate1(t, q)  == [type |-> t, args |-> <<q>>]
Gate2(c, t)  == [type |-> "CX", args |-> <<c, t>>]

GatesOn(n) ==
    {Gate1(t, q) : t \in {"H", "X", "Y", "Z"}, q \in 0..(n - 1)}
    \cup {Gate2(p[1], p[2]) :
             p \in {r \in (0..(n - 1)) \X (0..(n - 1)) : r[1] # r[2]}}

GateSeqs(n, len) == UNION {[1..k -> GatesOn(n)] : k \in 0..len}

CircuitsOn(n, len) == {[n_qubits |-> n, gates |-> g] : g \in GateSeqs(n, len)}

\* Circuit(n): n qubits, no gate
Circuit(n) == [n_qubits |-> n, gates |-> <<>>]

\* Circuit.H(q) / Circuit.CX(c, t) / ...: append one gate
AddGate(c, g) == [c EXCEPT !.gates = Append(@, g)]

\* Circuit.add_circuit(circ, qubits=...): the gates of circ, each argument q
\* renamed to qubits[q] (a Python list, indexed from 0), appended to target
AddCircuit(target, circ, qubits) ==
    [target EXCEPT !.gates = @ \o
        [i \in 1..Len(circ.gates) |->
            [type |-> circ.gates[i].type,
             args |-> [j \in 1..Len(circ.gates[i].args) |->
                          qubits[circ.gates[i].args[j] + 1]]]]]

\* [q for q in range(n_qubits)]
RangeList(n) == [i \in 1..n |-> i - 1]

RECURSIVE HLoop(_, _, _)
\* for q in range(n_qubits): bell_states.H(q), from q on
HLoop(c, q, n) ==
    IF q >= n THEN c ELSE HLoop(AddGate(c, Gate1("H", q)), q + 1, n)

RECURSIVE CXLoop(_, _, _)
\* for q in range(n_qubits): bell_states.CX(q, q + n_qubits), from q on
CXLoop(c, q, n) ==
    IF q >= n THEN c ELSE CXLoop(AddGate(c, Gate2(q, q + n)), q + 1, n)

\* lines 19-23: the 2n-qubit circuit preparing n Bell pairs
BellStates(n) == CXLoop(HLoop(Circuit(2 * n), 0, n), 0, n)

----------------------------------------------------------------------------
(* Exact state vectors.  An amplitude is <<re, im>> with integer parts; a  *)
(* state carries the number h of Hadamards applied, so that the amplitude  *)
(* of basis state x is amp[x] / sqrt(2)^h.                                 *)

RECURSIVE Pow2(_)
Pow2(k) == IF k = 0 THEN 1 ELSE 2 * Pow2(k - 1)

Bit(x, q)  == (x \div Pow2(q)) % 2
Flip(x, q) == IF Bit(x, q) = 0 THEN x + Pow2(q) ELSE x - Pow2(q)

CAdd(a, b) == <<a[1] + b[1], a[2] + b[2]>>
CNeg(a)    == <<-a[1], -a[2]>>
CMul(a, b) == <<a[1] * b[1] - a[2] * b[2], a[1] * b[2] + a[2] * b[1]>>
CConj(a)   == <<a[1], -a[2]>>
CI         == <<0, 1>>

\* |0...0> on m qubits
ZeroState(m) ==
    [amp |-> [x \in 0..(Pow2(m) - 1) |-> IF x = 0 THEN <<1, 0>> ELSE <<0, 0>>],
     h   |-> 0]

\* the unitary of one gate applied to a state
ApplyGate(s, g) ==
    LET q == g.args[1]
        a == s.amp
    IN  CASE g.type = "X" ->
               [s EXCEPT !.amp = [x \in DOMAIN a |-> a[Flip(x, q)]]]
          [] g.type = "Z" ->
               [s EXCEPT !.amp = [x \in DOMAIN a |->
                    IF Bit(x, q) = 1 THEN CNeg(a[x]) ELSE a[x]]]
          [] g.type = "Y" ->
               \* Y|0> = i|1>, Y|1> = -i|0>
               [s EXCEPT !.amp = [x \in DOMAIN a |->
                    IF Bit(x, q) = 1 THEN CMul(CI, a[Flip(x, q)])
                                     ELSE CNeg(CMul(CI, a[Flip(x, q)]))]]
          [] g.type = "H" ->
               [amp |-> [x \in DOMAIN a |->
                    IF Bit(x, q) = 0 THEN CAdd(a[x], a[Flip(x, q)])
                                     ELSE CAdd(a[Flip(x, q)], CNeg(a[x]))],
                h   |-> s.h + 1]
          [] g.type = "CX" ->
               [s EXCEPT !.amp = [x \in DOMAIN a |->
                    IF Bit(x, q) = 1 THEN a[Flip(x, g.args[2])] ELSE a[x]]]

RECURSIVE ApplyGates(_, _, _)
ApplyGates(s, gates, i) ==
    IF i > Len(gates) THEN s ELSE ApplyGates(ApplyGate(s, gates[i]), gates, i + 1)

\* TensorNetwork(circ): the network of circ acting on |0...0>; its full
\* contraction is the output state of circ
TensorNetwork(circ) == ApplyGates(ZeroState(circ.n_qubits), circ.gates, 1)

RECURSIVE SumOverlap(_, _, _, _)
\* the sum over the basis states lo..hi of conj(bra[x]) * ket[x]
SumOverlap(ket, bra, lo, hi) ==
    IF lo = hi THEN CMul(CConj(bra.amp[lo]), ket.amp[lo])
    ELSE LET mid == (lo + hi) \div 2
         IN  CAdd(SumOverlap(ket, bra, lo, mid), SumOverlap(ket, bra, mid + 1, hi))

\* a slip: the bra side not conjugated
Contract_noConj(ket, bra) ==
    LET noconj == [bra EXCEPT !.amp = [x \in DOMAIN bra.amp |-> CConj(bra.amp[x])]]
        s == SumOverlap(ket, noconj, 0, Cardinality(DOMAIN ket.amp) - 1)
    IN  [re |-> s[1], im |-> s[2], h |-> ket.h + bra.h]

\* cq.contract(*ket_net.vdot(bra_net)): the inner product <bra|ket>, the bra
\* side conjugated.  The value is (re + i im) / sqrt(2)^h.
Contract(ket, bra) ==
    LET s == SumOverlap(ket, bra, 0, Cardinality(DOMAIN ket.amp) - 1)
    IN  [re |-> s[1], im |-> s[2], h |-> ket.h + bra.h]

\* floor(1 / (atol + rtol * |1|)) for numpy's defaults rtol = 1e-5, atol = 1e-8
InvTol == 99900

\* np.isclose(overlap, 1): |z - 1| <= atol + rtol.  With z = (re + i im)/sqrt(M),
\* M = 2^h and N = re^2 + im^2:  |z - 1|^2 = N/M - 2 re/sqrt(M) + 1, so the
\* test is re > 0 and (N + M - M tol^2)^2 <= 4 re^2 M, that is
\* (N + M)^2 - 4 re^2 M <= 2 M tol^2 (N + M) - (M tol^2)^2.  The left side is a
\* non-negative integer (N >= re^2), and the right side is below 1 as long as
\* 2 M (N + M) < InvTol^2, which holds for every value 32-bit integers can
\* hold; the bound is written with two integer divisions by InvTol.
IsClose(z) ==
    LET M == Pow2(z.h)
        N == z.re * z.re + z.im * z.im
    IN  /\ z.re > 0
        /\ (N + M) * (N + M) - 4 * z.re * z.re * M
              <= ((2 * M * (N + M)) \div InvTol) \div InvTol

\* lines 15-38 as one function: TRUE / FALSE
TestEquivalence(c1, c2) ==
    LET n    == c1.n_qubits
        bell == BellStates(n)
        ket  == AddCircuit(bell, c1, RangeList(n))
        bra  == AddCircuit(bell, c2, RangeList(n))
    IN  IsClose(Contract(TensorNetwork(ket), TensorNetwork(bra)))

----------------------------------------------------------------------------
(* One call of test_equivalence, line by line.                             *)

\* the script body not running
RunIdle ==
    /\ pc = "idle"
    /\ exc = "None"
    /\ max_qubits = 0
    /\ results = <<>>
    /\ n_skipped = 0 /\ n_success = 0 /\ n_fail = 0
    /\ listing = <<>>
    /\ bef_index = 0
    /\ name = ""
    /\ old_circ = NoCircuit
    /\ new_files = <<>>
    /\ new_index = 0
    /\ new_circ = NoCircuit
    /\ console = <<>>
    /\ report = <<>>
    /\ n_writes = 0
    /\ pairs = <<>>
    /\ calls = <<>>
    /\ row_owner = <<>>

NoScalar == [re |-> 0, im |-> 0, h |-> 0]

EqIdle ==
    /\ tpc = "idle"
    /\ heap = [o \in {"a", "b", "bell", "ket"} |-> NoCircuit]
    /\ circ1 = NoRef /\ circ2 = NoRef
    /\ args = <<NoCircuit, NoCircuit>>
    /\ variant = [kind |-> "none", q |-> 0, pos |-> 0, k |-> 0, swapped |-> FALSE]
    /\ n_qubits = 0
    /\ bell_states = NoRef /\ ket_circ = NoRef /\ bra_circ = NoRef
    /\ overlap = NoScalar
    /\ ret = "None"

\* gates on qubit q whose product is the scalar i^k times the identity:
\* X.Y.Z = i, so the circuit Z, Y, X has unitary i.I; (Z.X)^2 = -I; Z.Y.X = -i
PhaseGates(k, q) ==
    CASE k = 0 -> <<>>
      [] k = 1 -> <<Gate1("Z", q), Gate1("Y", q), Gate1("X", q)>>
      [] k = 2 -> <<Gate1("X", q), Gate1("Z", q), Gate1("X", q), Gate1("Z", q)>>
      [] k = 3 -> <<Gate1("X", q), Gate1("Y", q), Gate1("Z", q)>>

\* s with g inserted after its first pos elements
InsertAt(s, pos, g) == SubSeq(s, 1, pos) \o <<g>> \o SubSeq(s, pos + 1, Len(s))

Variants(c) ==
    LET n == c.n_qubits
        V(kind, q, pos, k, sw) ==
            [kind |-> kind, q |-> q, pos |-> pos, k |-> k, swapped |-> sw]
    IN  {V("same_object", 0, 0, 0, FALSE), V("same", 0, 0, 0, FALSE),
         V("other", 0, 0, 0, FALSE)}
        \cup {V("extra_x", q, pos, 0, sw) :
                 q \in 0..(n - 1), pos \in 0..Len(c.gates), sw \in BOOLEAN}
        \cup {V("phase", q, 0, k, sw) :
                 q \in 0..(n - 1), k \in 0..3, sw \in BOOLEAN}

\* the second circuit of a variant of c (for "other": any small circuit)
Seconds(c, v) ==
    CASE v.kind \in {"same_object", "same"} -> {c}
      [] v.kind = "extra_x" ->
           {[c EXCEPT !.gates = InsertAt(@, v.pos, Gate1("X", v.q))]}
      [] v.kind = "phase" ->
           {[c EXCEPT !.gates = @ \o PhaseGates(v.k, v.q)]}
      [] v.kind = "other" ->
           UNION {CircuitsOn(m, MaxOther) : m \in 1..MaxQubits}

InitEq ==
    /\ RunIdle
    /\ \E n \in 1..MaxQubits :
         \E c \in CircuitsOn(n, MaxGates) :
           \E v \in Variants(c) :
             \E d \in Seconds(c, v) :
               LET first  == IF v.swapped THEN d ELSE c
                   second == IF v.swapped THEN c ELSE d
               IN  /\ variant = v
                   /\ args = <<first, second>>
                   /\ circ1 = "a"
                   /\ circ2 = IF v.kind = "same_object" THEN "a" ELSE "b"
                   /\ heap = [o \in {"a", "b", "bell", "ket"} |->
                                IF o = "a" THEN first
                                ELSE IF o = "b" /\ v.kind # "same_object"
                                     THEN second ELSE NoCircuit]
    /\ tpc = "entry"
    /\ n_qubits = 0
    /\ bell_states = NoRef /\ ket_circ = NoRef /\ bra_circ = NoRef
    /\ overlap = NoScalar
    /\ ret = "None"

\* lines 16-17
EqAssert ==
    /\ tpc = "entry"
    /\ n_qubits' = heap[circ1].n_qubits
    /\ tpc' = IF heap[circ1].n_qubits = heap[circ2].n_qubits
              THEN "bell" ELSE "AssertionError"
    /\ UNCHANGED <<runvars, heap, circ1, circ2, args, variant, bell_states, ket_circ,
                   bra_circ, overlap, ret>>

\* lines 19-23
EqBell ==
    /\ tpc = "bell"
    /\ heap' = [heap EXCEPT !["bell"] = BellStates(n_qubits)]
    /\ bell_states' = "bell"
    /\ tpc' = "ket"
    /\ UNCHANGED <<runvars, circ1, circ2, args, variant, n_qubits, ket_circ, bra_circ,
                   overlap, ret>>

\* a slip: ket_circ = bell_states, without .copy()
EqKet_alias ==
    /\ tpc = "ket"
    /\ ket_circ' = bell_states
    /\ heap' = [heap EXCEPT ![bell_states] =
                   AddCircuit(heap[bell_states], heap[circ1], RangeList(n_qubits))]
    /\ tpc' = "bra"
    /\ UNCHANGED <<runvars, circ1, circ2, args, variant, n_qubits, bell_states, bra_circ,
                   overlap, ret>>

\* lines 25-26: ket_circ is a fresh copy, circ1 is appended to it
EqKet ==
    /\ tpc = "ket"
    /\ ket_circ' = "ket"
    /\ heap' = [heap EXCEPT !["ket"] =
                   AddCircuit(heap[bell_states], heap[circ1], RangeList(n_qubits))]
    /\ tpc' = "bra"
    /\ UNCHANGED <<runvars, circ1, circ2, args, variant, n_qubits, bell_states, bra_circ,
                   overlap, ret>>

\* a slip: circ1 appended to the bra side too
EqBra_circ1 ==
    /\ tpc = "bra"
    /\ bra_circ' = bell_states
    /\ heap' = [heap EXCEPT ![bell_states] =
                   AddCircuit(heap[bell_states], heap[circ1], RangeList(n_qubits))]
    /\ tpc' = "contract"
    /\ UNCHANGED <<runvars, circ1, circ2, args, variant, n_qubits, bell_states, ket_circ,
                   overlap, ret>>

\* lines 27-28: bra_circ is bell_states itself, circ2 is appended to it
EqBra ==
    /\ tpc = "bra"
    /\ bra_circ' = bell_states
    /\ heap' = [heap EXCEPT ![bell_states] =
                   AddCircuit(heap[bell_states], heap[circ2], RangeList(n_qubits))]
    /\ tpc' = "contract"
    /\ UNCHANGED <<runvars, circ1, circ2, args, variant, n_qubits, bell_states, ket_circ,
                   overlap, ret>>

\* lines 31-36
EqContract ==
    /\ tpc = "contract"
    /\ overlap' = Contract(TensorNetwork(heap[ket_circ]),
                           TensorNetwork(heap[bra_circ]))
    /\ tpc' = "return"
    /\ UNCHANGED <<runvars, heap, circ1, circ2, args, variant, n_qubits, bell_states,
                   ket_circ, bra_circ, ret>>

\* lines 31-36, the engine raising (out of device memory, for one)
EqContractRaises ==
    /\ tpc = "contract"
    /\ tpc' = "raised"
    /\ UNCHANGED <<runvars, heap, circ1, circ2, args, variant, n_qubits, bell_states,
                   ket_circ, bra_circ, overlap, ret>>

\* line 38
EqReturn ==
    /\ tpc = "return"
    /\ ret' = IF IsClose(overlap) THEN "True" ELSE "False"
    /\ tpc' = "done"
    /\ UNCHANGED <<runvars, heap, circ1, circ2, args, variant, n_qubits, bell_states,
                   ket_circ, bra_circ, overlap>>

EqNext ==
    \/ EqAssert
    \/ EqBell
    \/ EqKet
    \/ EqBra
    \/ EqContract
    \/ EqContractRaises
    \/ EqReturn

----------------------------------------------------------------------------
(* The file system seen by run(), and load_circuit.                        *)

\* the names os.listdir can return: the files a.json, b.qasm and c.txt
BeforeFiles ==
    {[stem |-> "a", suffix |-> ".json"],
     [stem |-> "b", suffix |-> ".qasm"],
     [stem |-> "c", suffix |-> ".txt"]}

Listings ==
    {l \in UNION {[1..k -> BeforeFiles] : k \in 0..MaxBefore} :
        \A i, j \in DOMAIN l : i # j => l[i] # l[j]}

\* what a circuit file can hold: a circuit, text that does not parse, or a
\* parsed object that is no circuit
BadSyntax  == [n_qubits |-> -2, gates |-> <<>>]
BadCircuit == [n_qubits |-> -3, gates |-> <<>>]

RunCircuits ==
    {[n_qubits |-> n, gates |-> g] :
        n \in 1..(MaxCeiling + 1), g \in {<<>>, <<Gate1("X", 0)>>}}

Contents == RunCircuits \cup {BadSyntax, BadCircuit}

\* Path(name).stem
Stem(file) == file.stem

\* lines 114-132.  json.load raises JSONDecodeError, a ValueError;
\* Circuit.from_dict and circuit_from_qasm_str raise other exceptions
LoadCircuit(suffix, content) ==
    IF suffix = ".json" THEN
        IF content = BadSyntax THEN [kind |-> "ValueError", circ |-> NoCircuit]
        ELSE IF content = BadCircuit THEN [kind |-> "Error", circ |-> NoCircuit]
        ELSE [kind |-> "ok", circ |-> content]
    ELSE IF suffix = ".qasm" THEN
        IF content \in {BadSyntax, BadCircuit}
        THEN [kind |-> "Error", circ |-> NoCircuit]
        ELSE [kind |-> "ok", circ |-> content]
    ELSE [kind |-> "ValueError", circ |-> NoCircuit]

\* the contents worth telling apart for a file of this suffix
ContentsOf(suffix) == IF suffix \in {".json", ".qasm"} THEN Contents ELSE {BadSyntax}

\* json_new_circs + qasm_new_circs: nj .json paths, then nq .qasm paths
NewFiles(nj, nq) == [i \in 1..(nj + nq) |-> IF i <= nj THEN ".json" ELSE ".qasm"]

\* line 77
IsMismatch(new, old) == new.n_qubits # old.n_qubits

\* a slip: the ceiling itself skipped
ExceedsCeiling_ge(new, maxq) == new.n_qubits >= maxq

\* a slip: one qubit above the ceiling attempted
ExceedsCeiling_plus1(new, maxq) == new.n_qubits > maxq + 1

\* line 84
ExceedsCeiling(new, maxq) == new.n_qubits > maxq

Header == <<"Name", "Success", "Elapsed Time">>

\* csv.writer.writerow(row): every field through str()
CsvRow(row) ==
    <<row[1], IF row[2] THEN "True" ELSE "False", ToString(row[3])>>

CsvRows(rows) == [i \in 1..Len(rows) |-> CsvRow(rows[i])]

----------------------------------------------------------------------------
(* The script body and run().                                              *)

Init ==
    /\ EqIdle
    /\ pc = "main"
    /\ exc = "None"
    /\ max_qubits \in 1..MaxCeiling
    /\ results = <<>>
    /\ n_skipped = 0 /\ n_success = 0 /\ n_fail = 0
    /\ listing = <<>>
    /\ bef_index = 0
    /\ name = ""
    /\ old_circ = NoCircuit
    /\ new_files = <<>>
    /\ new_index = 0
    /\ new_circ = NoCircuit
    /\ console = <<>>
    /\ report = <<>>
    /\ n_writes = 0
    /\ pairs = <<>>
    /\ calls = <<>>
    /\ row_owner = <<>>

history == <<pairs, calls, row_owner>>
counters == <<n_skipped, n_success, n_fail>>
output == <<report, n_writes>>

\* the pair under way
PairId == <<bef_index, new_index>>

\* lines 138-144: results = [], print("Starting"), the call of run
Main ==
    /\ pc = "main"
    /\ results' = <<>>
    /\ console' = Append(console, <<"Starting">>)
    /\ pc' = "run"
    /\ UNCHANGED <<eqvars, exc, max_qubits, counters, listing, bef_index, name, old_circ,
                   new_files, new_index, new_circ, output, history>>

\* lines 42-51: the counters, and os.listdir returning
RunStart ==
    /\ pc = "run"
    /\ n_skipped' = 0 /\ n_success' = 0 /\ n_fail' = 0
    /\ listing' \in Listings
    /\ pc' = "outer"
    /\ UNCHANGED <<eqvars, exc, max_qubits, results, bef_index, name, old_circ, new_files,
                   new_index, new_circ, console, output, history>>

\* lines 42-51: os.listdir raising, no directory "bef"
RunListdirRaises ==
    /\ pc = "run"
    /\ n_skipped' = 0 /\ n_success' = 0 /\ n_fail' = 0
    /\ exc' = "FileNotFoundError"
    /\ pc' = "finally"
    /\ UNCHANGED <<eqvars, max_qubits, results, listing, bef_index, name, old_circ,
                   new_files, new_index, new_circ, console, output, history>>

\* lines 51-60: a before file load_circuit refuses with ValueError is ignored
OuterIgnore ==
    /\ pc = "outer" /\ listing # <<>>
    /\ \E content \in ContentsOf(Head(listing).suffix) :
         LoadCircuit(Head(listing).suffix, content).kind = "ValueError"
    /\ name' = Stem(Head(listing))
    /\ listing' = Tail(listing)
    /\ bef_index' = bef_index + 1
    /\ UNCHANGED <<eqvars, pc, exc, max_qubits, results, counters, old_circ, new_files,
                   new_index, new_circ, console, output, history>>

\* lines 51-56: load_circuit raising anything else leaves run
OuterLoadRaises ==
    /\ pc = "outer" /\ listing # <<>>
    /\ \E content \in ContentsOf(Head(listing).suffix) :
         LoadCircuit(Head(listing).suffix, content).kind = "Error"
    /\ name' = Stem(Head(listing))
    /\ listing' = Tail(listing)
    /\ bef_index' = bef_index + 1
    /\ exc' = "Error"
    /\ pc' = "finally"
    /\ UNCHANGED <<eqvars, max_qubits, results, counters, old_circ, new_files, new_index,
                   new_circ, console, output, history>>

\* lines 51-66: a before file with no candidate
OuterNoCandidate ==
    /\ pc = "outer" /\ listing # <<>>
    /\ \E content \in ContentsOf(Head(listing).suffix) :
         LET l == LoadCircuit(Head(listing).suffix, content)
         IN  /\ l.kind = "ok"
             /\ old_circ' = l.circ
    /\ name' = Stem(Head(listing))
    /\ listing' = Tail(listing)
    /\ bef_index' = bef_index + 1
    /\ UNCHANGED <<eqvars, pc, exc, max_qubits, results, counters, new_files, new_index,
                   new_circ, console, output, history>>

\* lines 51-72: a before file with candidates
OuterEnter ==
    /\ pc = "outer" /\ listing # <<>>
    /\ \E content \in ContentsOf(Head(listing).suffix) :
         LET l == LoadCircuit(Head(listing).suffix, content)
         IN  /\ l.kind = "ok"
             /\ old_circ' = l.circ
    /\ \E nj, nq \in 0..MaxGlob :
         /\ nj + nq > 0
         /\ new_files' = NewFiles(nj, nq)
    /\ name' = Stem(Head(listing))
    /\ listing' = Tail(listing)
    /\ bef_index' = bef_index + 1
    /\ new_index' = 0
    /\ console' = Append(console, <<"Checking", bef_index + 1>>)
    /\ pc' = "inner"
    /\ UNCHANGED <<eqvars, exc, max_qubits, results, counters, new_circ, output, history>>

\* lines 72-75: the next candidate loads
InnerLoad ==
    /\ pc = "inner" /\ new_files # <<>>
    /\ \E content \in ContentsOf(Head(new_files)) :
         LET l == LoadCircuit(Head(new_files), content)
         IN  /\ l.kind = "ok"
             /\ new_circ' = l.circ
             /\ pairs' = Append(pairs, [id |-> <<bef_index, new_index + 1>>,
                                        old |-> old_circ.n_qubits,
                                        new |-> l.circ.n_qubits])
    /\ new_files' = Tail(new_files)
    /\ new_index' = new_index + 1
    /\ console' = Append(console, <<"pair", <<bef_index, new_index + 1>>>>)
    /\ pc' = "check"
    /\ UNCHANGED <<eqvars, exc, max_qubits, results, counters, listing, bef_index, name,
                   old_circ, output, calls, row_owner>>

\* lines 72-73: the next candidate does not load; nothing catches it
InnerLoadRaises ==
    /\ pc = "inner" /\ new_files # <<>>
    /\ \E content \in ContentsOf(Head(new_files)) :
         LET l == LoadCircuit(Head(new_files), content)
         IN  /\ l.kind # "ok"
             /\ exc' = l.kind
    /\ new_files' = Tail(new_files)
    /\ new_index' = new_index + 1
    /\ pc' = "finally"
    /\ UNCHANGED <<eqvars, max_qubits, results, counters, listing, bef_index, name,
                   old_circ, new_circ, console, output, history>>

\* line 72: the candidates of this before file are exhausted
InnerDone ==
    /\ pc = "inner" /\ new_files = <<>>
    /\ pc' = "outer"
    /\ UNCHANGED <<eqvars, exc, max_qubits, results, counters, listing, bef_index, name,
                   old_circ, new_files, new_index, new_circ, console, output,
                   history>>

\* a slip: the mismatch printed but not counted
InnerMismatch_nocount ==
    /\ pc = "check"
    /\ new_circ.n_qubits # old_circ.n_qubits
    /\ console' = Append(console, <<"FAIL", <<bef_index, new_index>>>>)
    /\ pc' = "inner"
    /\ UNCHANGED <<eqvars, exc, max_qubits, results, n_skipped, n_success, n_fail,
                   listing, bef_index, name, old_circ, new_files, new_index,
                   new_circ, report, n_writes, pairs, calls, row_owner>>

\* lines 77-82
InnerMismatch ==
    /\ pc = "check"
    /\ IsMismatch(new_circ, old_circ)
    /\ console' = Append(console, <<"FAIL", PairId>>)
    /\ n_fail' = n_fail + 1
    /\ pc' = "inner"
    /\ UNCHANGED <<eqvars, exc, max_qubits, results, n_skipped, n_success, listing,
                   bef_index, name, old_circ, new_files, new_index, new_circ,
                   output, history>>

\* lines 84-87
InnerSkip ==
    /\ pc = "check"
    /\ ~IsMismatch(new_circ, old_circ)
    /\ ExceedsCeiling(new_circ, max_qubits)
    /\ console' = Append(console, <<"Skip", PairId>>)
    /\ n_skipped' = n_skipped + 1
    /\ pc' = "inner"
    /\ UNCHANGED <<eqvars, exc, max_qubits, results, n_success, n_fail, listing,
                   bef_index, name, old_circ, new_files, new_index, new_circ,
                   output, history>>

\* lines 88-99: test_equivalence returns
InnerEvaluate ==
    /\ pc = "check"
    /\ ~IsMismatch(new_circ, old_circ)
    /\ ~ExceedsCeiling(new_circ, max_qubits)
    /\ calls' = Append(calls, PairId)
    /\ \E elapsed_time \in 0..MaxElapsed :
         LET is_eq == TestEquivalence(new_circ, old_circ)
         IN  /\ console' = Append(console,
                                  <<IF is_eq THEN "OK" ELSE "FAIL", PairId>>)
             /\ n_success' = IF is_eq THEN n_success + 1 ELSE n_success
             /\ n_fail' = IF is_eq THEN n_fail ELSE n_fail + 1
             /\ results' = Append(results, <<name, is_eq, elapsed_time>>)
    /\ row_owner' = Append(row_owner, PairId)
    /\ pc' = "inner"
    /\ UNCHANGED <<eqvars, exc, max_qubits, n_skipped, listing, bef_index, name, old_circ,
                   new_files, new_index, new_circ, output, pairs>>

\* lines 88-89: the contraction engine raises inside test_equivalence
InnerEvaluateRaises ==
    /\ pc = "check"
    /\ ~IsMismatch(new_circ, old_circ)
    /\ ~ExceedsCeiling(new_circ, max_qubits)
    /\ calls' = Append(calls, PairId)
    /\ exc' = "ContractionError"
    /\ pc' = "finally"
    /\ UNCHANGED <<eqvars, max_qubits, results, counters, listing, bef_index, name,
                   old_circ, new_files, new_index, new_circ, console, output,
                   pairs, row_owner>>

\* lines 101-111: the loop over os.listdir is exhausted, the summary line
Summary ==
    /\ pc = "outer" /\ listing = <<>>
    /\ console' = Append(console, <<"Finished", n_success, n_fail, n_skipped>>)
    /\ pc' = "finally"
    /\ UNCHANGED <<eqvars, exc, max_qubits, results, counters, listing, bef_index, name,
                   old_circ, new_files, new_index, new_circ, output, history>>

\* the run interrupted from outside (KeyboardInterrupt) between two steps
Interrupt ==
    /\ pc \in {"run", "outer", "inner", "check"}
    /\ exc' = "KeyboardInterrupt"
    /\ pc' = "finally"
    /\ UNCHANGED <<eqvars, max_qubits, results, counters, listing, bef_index, name,
                   old_circ, new_files, new_index, new_circ, console, output,
                   history>>

\* a slip: the report written after run(), not in a finally block
Finally_afterRun ==
    /\ pc = "finally"
    /\ report' = IF exc = "None" THEN <<Header>> \o CsvRows(results) ELSE report
    /\ n_writes' = IF exc = "None" THEN n_writes + 1 ELSE n_writes
    /\ pc' = IF exc = "None" THEN "done" ELSE "raised"
    /\ UNCHANGED <<eqvars, exc, max_qubits, results, counters, listing, bef_index, name,
                   old_circ, new_files, new_index, new_circ, console, history>>

\* lines 143-151: the finally block writes results.csv, then the exception,
\* if any, goes on
Finally ==
    /\ pc = "finally"
    /\ report' = <<Header>> \o CsvRows(results)
    /\ n_writes' = n_writes + 1
    /\ pc' = IF exc = "None" THEN "done" ELSE "raised"
    /\ UNCHANGED <<eqvars, exc, max_qubits, results, counters, listing, bef_index, name,
                   old_circ, new_files, new_index, new_circ, console, history>>

Next ==
    \/ Main
    \/ RunStart
    \/ RunListdirRaises
    \/ OuterIgnore
    \/ OuterLoadRaises
    \/ OuterNoCandidate
    \/ OuterEnter
    \/ InnerLoad
    \/ InnerLoadRaises
    \/ InnerDone
    \/ InnerMismatch
    \/ InnerSkip
    \/ InnerEvaluate
    \/ InnerEvaluateRaises
    \/ Summary
    \/ Interrupt
    \/ Finally

Spec   == Init /\ [][Next]_vars
SpecEq == InitEq /\ [][EqNext]_vars

----------------------------------------------------------------------------
(* What the histories say about one pair.                                  *)

Statuses == {"OK", "FAIL", "Skip"}

\* the status lines printed for pair id
Outcomes(id) ==
    {i \in DOMAIN console : console[i][1] \in Statuses /\ console[i][2] = id}

HasOutcome(id, out) ==
    \E i \in DOMAIN console : console[i][1] = out /\ console[i][2] = id

\* the rows of results appended for pair id
Rows(id) == {i \in DOMAIN row_owner : row_owner[i] = id}

\* test_equivalence was called on pair id
Called(id) == \E i \in DOMAIN calls : calls[i] = id

\* the status lines printed so far with this status
Count(out) == Cardinality({i \in DOMAIN console : console[i][1] = out})

\* the k-th loaded pair went through the whole loop body
Completed(k) == k < Len(pairs) \/ (pc # "check" /\ exc = "None")

SummaryReached == \E i \in DOMAIN console : console[i][1] = "Finished"

----------------------------------------------------------------------------
(* The claims about run() and the script body, under Spec.                 *)

\* C1: every pair that went through the loop body has exactly one status
\* among OK, FAIL and Skip; a pair with status OK or FAIL (a FAIL for
\* mismatched qubit counts included) has exactly one row in results, a pair
\* with status Skip has none.
C1_OutcomeAndRow ==
    \A k \in DOMAIN pairs :
        LET id == pairs[k].id
        IN  /\ Cardinality(Outcomes(id)) <= 1
            /\ Completed(k) => Cardinality(Outcomes(id)) = 1
            /\ (HasOutcome(id, "OK") \/ HasOutcome(id, "FAIL"))
                   => Cardinality(Rows(id)) = 1
            /\ HasOutcome(id, "Skip") => Cardinality(Rows(id)) = 0

\* C2: once the summary line is printed, n_success, n_fail and n_skipped (and
\* the three numbers of the line) are the numbers of OK, FAIL and Skip status
\* lines printed during the run, and they add up to the number of pairs.
C2_SummaryCounts ==
    \A i \in DOMAIN console :
        console[i][1] = "Finished" =>
            /\ console[i][2] = Count("OK")
            /\ console[i][3] = Count("FAIL")
            /\ console[i][4] = Count("Skip")
            /\ n_success = Count("OK")
            /\ n_fail = Count("FAIL")
            /\ n_skipped = Count("Skip")
            /\ n_success + n_fail + n_skipped = Len(pairs)

\* a run that ignored or passed over a before file and still printed a
\* summary counting one pair of each status
C2_Witness ==
    /\ SummaryReached
    /\ n_success >= 1 /\ n_fail >= 1 /\ n_skipped >= 1
    /\ bef_index > Cardinality({pairs[k].id[1] : k \in DOMAIN pairs})

\* C3: when the script ends, by run() returning or by an exception leaving
\* run(), results.csv was written exactly once: the header row, then one row
\* per record appended to results, in append order; before that it was never
\* written.
C3_ReportWritten ==
    /\ n_writes <= 1
    /\ pc \notin {"done", "raised"} => n_writes = 0
    /\ pc \in {"done", "raised"} =>
          /\ n_writes = 1
          /\ Len(results) = Len(row_owner)
          /\ Len(report) = Len(results) + 1
          /\ report[1] = <<"Name", "Success", "Elapsed Time">>
          /\ \A i \in DOMAIN results :
                 report[i + 1] = <<results[i][1],
                                   IF results[i][2] THEN "True" ELSE "False",
                                   ToString(results[i][3])>>

\* an exception left run() after two records were collected
C3_Witness ==
    /\ pc = "raised"
    /\ exc # "None"
    /\ Len(results) >= 2
    /\ Len(report) = 3

\* C4: a failure of the contraction engine never leaves run(): the pair it
\* hit is recorded as a FAIL, and run() goes on to its summary.
C4_EngineFailureIsFail ==
    /\ exc # "ContractionError"
    /\ \A k \in DOMAIN calls :
           HasOutcome(calls[k], "OK") \/ HasOutcome(calls[k], "FAIL")
    /\ (pc \in {"done", "raised"} /\ exc \notin {"None", "ContractionError"})
           \/ pc \notin {"done", "raised"}
           \/ (listing = <<>> /\ new_files = <<>>)

\* C5: a pair that run() decided on (a status line printed, or the call made)
\* was passed to test_equivalence if and only if its two qubit counts are
\* equal and at most max_qubits.
C5_AttemptedIffEligible ==
    \A k \in DOMAIN pairs :
        LET p == pairs[k]
        IN  (Outcomes(p.id) # {} \/ Called(p.id)) =>
                (Called(p.id) <=> (p.old = p.new /\ p.new <= max_qubits))

\* one pair at the ceiling attempted, one pair one qubit above it skipped,
\* one mismatched pair failed without a call
C5_Witness ==
    /\ \E k \in DOMAIN pairs :
          /\ pairs[k].old = max_qubits /\ pairs[k].new = max_qubits
          /\ Called(pairs[k].id)
    /\ \E k \in DOMAIN pairs :
          /\ pairs[k].old = max_qubits + 1 /\ pairs[k].new = max_qubits + 1
          /\ HasOutcome(pairs[k].id, "Skip") /\ ~Called(pairs[k].id)
    /\ \E k \in DOMAIN pairs :
          /\ pairs[k].old # pairs[k].new
          /\ HasOutcome(pairs[k].id, "FAIL") /\ ~Called(pairs[k].id)

\* C6 as stated: every candidate with more than max_qubits qubits that run()
\* decided on has status Skip and was never attempted, whatever the qubit
\* count of its before circuit.
C6_OversizeAlwaysSkip ==
    \A k \in DOMAIN pairs :
        LET p == pairs[k]
        IN  (p.new > max_qubits /\ (Outcomes(p.id) # {} \/ Called(p.id))) =>
                /\ HasOutcome(p.id, "Skip")
                /\ ~Called(p.id)

\* C6 as amended: a candidate with more than max_qubits qubits is never
\* attempted; once the loop body is through with it, it has exactly one
\* status: Skip if the before circuit has the same qubit count, FAIL if not;
\* and n_skipped counts the Skip lines.
C6_OversizeNeverAttempted ==
    /\ n_skipped = Count("Skip")
    /\ \A k \in DOMAIN pairs :
          LET p == pairs[k]
          IN  p.new > max_qubits =>
                /\ ~Called(p.id)
                /\ Completed(k) => Cardinality(Outcomes(p.id)) = 1
                /\ \A i \in Outcomes(p.id) :
                       console[i][1] = IF p.old = p.new THEN "Skip" ELSE "FAIL"

\* one oversize candidate skipped and one oversize candidate failed on its
\* qubit count
C6_Witness ==
    /\ \E k \in DOMAIN pairs :
          /\ pairs[k].new > max_qubits /\ pairs[k].old = pairs[k].new
          /\ HasOutcome(pairs[k].id, "Skip")
    /\ \E k \in DOMAIN pairs :
          /\ pairs[k].new > max_qubits /\ pairs[k].old # pairs[k].new
          /\ HasOutcome(pairs[k].id, "FAIL")

----------------------------------------------------------------------------
(* The claims about test_equivalence, under SpecEq.                        *)

\* C7: when one input is the other followed by gates that multiply to a
\* global phase i^k, test_equivalence returns True.
C7_GlobalPhaseEquivalent ==
    (tpc = "done" /\ variant.kind = "phase") => ret = "True"

\* C8: test_equivalence(C, C) returns True, and the contracted overlap is
\* exactly 1, whether the two arguments are one object or two equal circuits.
C8_Reflexive ==
    (tpc = "done" /\ variant.kind \in {"same", "same_object"}) =>
        /\ ret = "True"
        /\ overlap.im = 0
        /\ overlap.re > 0
        /\ overlap.re * overlap.re = Pow2(overlap.h)

\* the call on a circuit with a Y gate, which has imaginary amplitudes,
\* returned
C8_Witness ==
    /\ tpc = "done"
    /\ variant.kind = "same"
    /\ \E i \in DOMAIN args[1].gates : args[1].gates[i].type = "Y"

\* C9: when one input is the other with one extra X gate on one qubit, at any
\* place of the gate sequence, test_equivalence returns False, in both
\* argument orders.
C9_Sensitive ==
    (tpc = "done" /\ variant.kind = "extra_x") => ret = "False"

\* the call returned with the longer circuit as first argument
C9_Witness ==
    /\ tpc = "done"
    /\ variant.kind = "extra_x"
    /\ variant.swapped
    /\ Len(args[1].gates) = Len(args[2].gates) + 1

\* the circuit test_equivalence is to build from input c: 2n qubits, H on
\* 0..n-1, CX(i, i+n) for i in 0..n-1, then the gates of c on their own qubits
BuiltFrom(c) ==
    LET n == c.n_qubits
    IN  [n_qubits |-> 2 * n,
         gates |-> [i \in 1..(2 * n + Len(c.gates)) |->
                       IF i <= n THEN [type |-> "H", args |-> <<i - 1>>]
                       ELSE IF i <= 2 * n
                            THEN [type |-> "CX", args |-> <<i - n - 1, i - 1>>]
                            ELSE c.gates[i - 2 * n]]]

\* C10: once both circuits are built, ket_circ is BuiltFrom(circ1) and
\* bra_circ is BuiltFrom(circ2), so neither holds a gate of the other input;
\* and the two input circuits are at every step what they were at the call.
C10_BuiltCircuits ==
    /\ tpc # "idle" => heap[circ1] = args[1] /\ heap[circ2] = args[2]
    /\ tpc \in {"contract", "return", "raised", "done"} =>
          /\ heap[ket_circ] = BuiltFrom(args[1])
          /\ heap[bra_circ] = BuiltFrom(args[2])

\* both circuits built from two different inputs that each hold a gate
C10_Witness ==
    /\ tpc = "contract"
    /\ args[1] # args[2]
    /\ args[1].gates # <<>> /\ args[2].gates # <<>>
    /\ args[1].n_qubits = 2

====
